---------------------------- MODULE Spec2Model ----------------------------
(***************************************************************************)
(* pactl-http.py: a tiny HTTP server exposing the volume and the mute      *)
(* state of a PulseAudio/PipeWire sink through the pactl utility.          *)
(*                                                                         *)
(* Text (request paths, pactl output, pactl arguments) is a sequence of    *)
(* one-character strings, so that stripping, splitting, searching and      *)
(* parsing are computed character by character as the Python code does.    *)
(***************************************************************************)
EXTENDS Integers, Sequences, FiniteSets, TLC

(***************************************************************************)
(* Bounds of the model.                                                    *)
(***************************************************************************)
\* Largest percentage another actor (a desktop mixer) puts on the sink;
\* PulseAudio allows volumes above 100%.
MaxSinkVolume == 150
\* Largest number of trailing slashes a client appends to a path.
MaxTrailingSlashes == 2

(***************************************************************************)
(* Characters and Python's str methods.                                    *)
(***************************************************************************)
Digits == <<"0", "1", "2", "3", "4", "5", "6", "7", "8", "9">>

IsDigit(c) == \E i \in 1..10 : Digits[i] = c

DigitVal(c) == (CHOOSE i \in 1..10 : Digits[i] = c) - 1

\* str.isspace for the characters of the model
IsSpace(c) == c \in {" ", "\t", "\n", "\r"}

UpperCase == <<"A", "B", "C", "D", "E", "F", "G", "H", "I", "J", "K", "L", "M",
               "N", "O", "P", "Q", "R", "S", "T", "U", "V", "W", "X", "Y", "Z">>

LowerCase == <<"a", "b", "c", "d", "e", "f", "g", "h", "i", "j", "k", "l", "m",
               "n", "o", "p", "q", "r", "s", "t", "u", "v", "w", "x", "y", "z">>

LowerChar(c) ==
    IF \E i \in 1..26 : UpperCase[i] = c
    THEN LowerCase[CHOOSE i \in 1..26 : UpperCase[i] = c]
    ELSE c

\* str.lower
Lower(s) == [i \in 1..Len(s) |-> LowerChar(s[i])]

\* s[i:] of Python, 1-based: the suffix that starts at position i
From(s, i) == SubSeq(s, i, Len(s))

\* str.startswith
StartsWith(s, prefix) ==
    /\ Len(prefix) <= Len(s)
    /\ SubSeq(s, 1, Len(prefix)) = prefix

\* sub in s
Contains(s, sub) ==
    \E i \in 1..(Len(s) + 1) : StartsWith(From(s, i), sub)

\* str.lstrip() and str.rstrip(): leading or trailing whitespace removed
RECURSIVE LStrip(_)
LStrip(s) == IF s # <<>> /\ IsSpace(s[1]) THEN LStrip(Tail(s)) ELSE s

RECURSIVE RStrip(_)
RStrip(s) ==
    IF s # <<>> /\ IsSpace(s[Len(s)]) THEN RStrip(SubSeq(s, 1, Len(s) - 1)) ELSE s

\* str.strip()
Strip(s) == RStrip(LStrip(s))

\* str.rstrip("/"): every trailing slash removed
RECURSIVE RStripSlash(_)
RStripSlash(s) ==
    IF s # <<>> /\ s[Len(s)] = "/" THEN RStripSlash(SubSeq(s, 1, Len(s) - 1)) ELSE s

\* s.split("/")[-1]: what follows the last slash (all of s when it has none)
RECURSIVE LastSegment(_)
LastSegment(s) ==
    IF s = <<>> \/ s[Len(s)] = "/" THEN <<>>
    ELSE LastSegment(SubSeq(s, 1, Len(s) - 1)) \o <<s[Len(s)]>>

\* the value of a string of decimal digits
RECURSIVE DigitsValue(_)
DigitsValue(ds) ==
    IF ds = <<>> THEN 0
    ELSE 10 * DigitsValue(SubSeq(ds, 1, Len(ds) - 1)) + DigitVal(ds[Len(ds)])

\* str(n) for n >= 0
RECURSIVE NatToStr(_)
NatToStr(n) ==
    IF n < 10 THEN <<Digits[n + 1]>>
    ELSE NatToStr(n \div 10) \o <<Digits[(n % 10) + 1]>>

\* the digits of an int literal: decimal digits in which single underscores
\* may separate digits
DigitGroups(body) ==
    /\ body # <<>>
    /\ \A i \in 1..Len(body) : IsDigit(body[i]) \/ body[i] = "_"
    /\ IsDigit(body[1])
    /\ IsDigit(body[Len(body)])
    /\ \A i \in 1..(Len(body) - 1) : ~(body[i] = "_" /\ body[i + 1] = "_")

\* an int literal without the whitespace around it: an optional sign, then
\* the digits
SignedLiteral(t) ==
    /\ t # <<>>
    /\ DigitGroups(IF t[1] \in {"+", "-"} THEN Tail(t) ELSE t)

\* Whether int(s) accepts s.
IntLiteral(s) == SignedLiteral(Strip(s))

SignedValue(t) ==
    IF t[1] = "-" THEN 0 - DigitsValue(SelectSeq(Tail(t), IsDigit))
    ELSE IF t[1] = "+" THEN DigitsValue(SelectSeq(Tail(t), IsDigit))
    ELSE DigitsValue(SelectSeq(t, IsDigit))

\* int(s) for a literal int accepts
IntValue(s) == SignedValue(Strip(s))


(***************************************************************************)
(* Configuration and the pactl utility.  The utility is an external        *)
(* process: its output format is the one the source quotes, and what it    *)
(* does on one invocation (exit status, output, hang) is the environment's *)
(* choice, named by a fault.                                               *)
(***************************************************************************)
\* PACTL_SINK, the default
SINK == <<"@DEFAULT_SINK@">>

\* subprocess.run(..., timeout=5)
Timeout == 5

\* what one invocation of the utility does: it works, it exits non-zero, it
\* hangs beyond the timeout, or it exits 0 having printed nothing
Faults == {"ok", "nonzero", "timeout", "blank"}

GetSinkVolumeCmd == << <<"pactl">>, <<"get-sink-volume">>, SINK >>

GetSinkMuteCmd == << <<"pactl">>, <<"get-sink-mute">>, SINK >>

SetSinkVolumeCmd(arg) == << <<"pactl">>, <<"set-sink-volume">>, SINK, arg >>

SetSinkMuteCmd(arg) == << <<"pactl">>, <<"set-sink-mute">>, SINK, arg >>

\* " ".join(cmd)
RECURSIVE JoinArgs(_)
JoinArgs(cmd) ==
    IF Len(cmd) = 0 THEN <<>>
    ELSE IF Len(cmd) = 1 THEN cmd[1]
    ELSE cmd[1] \o <<" ">> \o JoinArgs(Tail(cmd))

\* pactl prints a percentage with printf's %3u
Pad3(ds) ==
    IF Len(ds) = 1 THEN <<" ", " ">> \o ds
    ELSE IF Len(ds) = 2 THEN <<" ">> \o ds
    ELSE ds

\* pactl get-sink-volume: "Volume: aux0: 32768 /  50% / ..."
SinkVolumeText(vol) ==
    <<"V", "o", "l", "u", "m", "e", ":", " ", "a", "u", "x", "0", ":", " ">>
    \o NatToStr((vol * 65536) \div 100)
    \o <<" ", "/", " ">> \o Pad3(NatToStr(vol)) \o <<"%", " ", "/", " ", ".", ".", ".", "\n">>

\* pactl get-sink-mute: "Mute: yes" or "Mute: no"
SinkMuteText(mute) ==
    <<"M", "u", "t", "e", ":", " ">>
    \o (IF mute THEN <<"y", "e", "s">> ELSE <<"n", "o">>) \o <<"\n">>

\* One invocation of the utility on a sink at vol percent, muted or not:
\* the process's exit status, output and whether it outlived the timeout,
\* and the sink's state after it.  A set command stores the percentage (the
\* flag) it is given.
Pactl(cmd, vol, mute, fault) ==
    LET verb == cmd[2]
        good == fault \in {"ok", "blank"}
    IN  [ timedOut   |-> fault = "timeout",
          returncode |-> IF fault = "nonzero" THEN 1 ELSE 0,
          stdout     |-> IF fault # "ok" THEN <<>>
                         ELSE IF verb = <<"get-sink-volume">> THEN SinkVolumeText(vol)
                         ELSE IF verb = <<"get-sink-mute">> THEN SinkMuteText(mute)
                         ELSE <<>>,
          stderr     |-> IF fault = "nonzero" THEN <<"Failure: No such entity", "\n">>
                         ELSE <<>>,
          volume     |-> IF good /\ verb = <<"set-sink-volume">>
                         THEN DigitsValue(SubSeq(cmd[4], 1, Len(cmd[4]) - 1))
                         ELSE vol,
          mute       |-> IF good /\ verb = <<"set-sink-mute">>
                         THEN cmd[4] = <<"1">>
                         ELSE mute ]

(***************************************************************************)
(* The adapter: run, get_volume, get_mute, set_volume, set_mute.           *)
(* Each returns a record: exc is the message of the exception raised       *)
(* (NoExc when none), value the value returned, calls the invocations of   *)
(* the utility made, volume and mute the sink's state afterwards.          *)
(***************************************************************************)
NoExc == <<>>

\* a run that does not look at the exit status
CompletedUnchecked(cmd, fault, result) ==
    [ exc    |-> IF result.timedOut
                 THEN <<"Command ">> \o JoinArgs(cmd) \o <<" timed out after ">>
                      \o NatToStr(Timeout) \o <<" seconds">>
                 ELSE NoExc,
      value  |-> IF result.timedOut THEN <<>> ELSE Strip(result.stdout),
      calls  |-> << [argv |-> cmd, fault |-> fault] >>,
      volume |-> result.volume,
      mute   |-> result.mute ]

\* run(cmd), once subprocess.run has returned result or has timed out
Completed(cmd, fault, result) ==
    [ exc    |-> IF result.timedOut
                 THEN <<"Command ">> \o JoinArgs(cmd) \o <<" timed out after ">>
                      \o NatToStr(Timeout) \o <<" seconds">>
                 ELSE IF result.returncode # 0
                 THEN <<"Command failed: ">> \o JoinArgs(cmd) \o <<"\n">>
                      \o Strip(result.stderr)
                 ELSE NoExc,
      value  |-> IF result.timedOut \/ result.returncode # 0 THEN <<>>
                 ELSE Strip(result.stdout),
      calls  |-> << [argv |-> cmd, fault |-> fault] >>,
      volume |-> result.volume,
      mute   |-> result.mute ]

\* run(cmd)
run(cmd, vol, mute, fault) == Completed(cmd, fault, Pactl(cmd, vol, mute, fault))

\* the first position from i on that holds no whitespace (no digit), or the
\* position after the end
RECURSIVE SkipSpaces(_, _)
SkipSpaces(out, i) ==
    IF i <= Len(out) /\ IsSpace(out[i]) THEN SkipSpaces(out, i + 1) ELSE i

RECURSIVE SkipDigits(_, _)
SkipDigits(out, i) ==
    IF i <= Len(out) /\ IsDigit(out[i]) THEN SkipDigits(out, i + 1) ELSE i

\* the digits out[d..e-1], when there is one at least and a percent sign follows
Captured(out, d, e) ==
    IF e > d /\ e <= Len(out) /\ out[e] = "%" THEN SubSeq(out, d, e - 1) ELSE <<>>

DigitsFrom(out, d) == Captured(out, d, SkipDigits(out, d))

\* a match of /(\d+)%, which allows no whitespace after the slash
MatchNoSpace(out, i) ==
    IF out[i] = "/" THEN DigitsFrom(out, i + 1) ELSE <<>>

\* The match of /\s*(\d+)% at position i: a slash, then all the whitespace
\* that follows, then all the digits that follow (one at least), then a
\* percent sign.  Group 1, or <<>> when there is no match at i.
MatchAt(out, i) ==
    IF out[i] = "/" THEN DigitsFrom(out, SkipSpaces(out, i + 1)) ELSE <<>>

\* the leftmost match from position i on
RECURSIVE FirstMatch(_, _)
FirstMatch(out, i) ==
    IF i > Len(out) THEN <<>>
    ELSE IF MatchAt(out, i) # <<>> THEN MatchAt(out, i)
    ELSE FirstMatch(out, i + 1)

\* re.search(r"/\s*(\d+)%", out): group 1 of the leftmost match, <<>> for None
SearchPercent(out) == FirstMatch(out, 1)

\* get_volume(), once run has returned out (or raised) and the search m
VolumeOf(out, m) ==
    IF out.exc # NoExc THEN out
    ELSE IF m = <<>>
    THEN [out EXCEPT !.exc = <<"Could not parse volume: ", "'">> \o out.value \o <<"'">>]
    ELSE [out EXCEPT !.value = DigitsValue(m)]

ParseVolume(out) == VolumeOf(out, SearchPercent(out.value))

\* get_volume()
get_volume(vol, mute, fault) == ParseVolume(run(GetSinkVolumeCmd, vol, mute, fault))

\* get_mute(), once run has returned out (or raised)
ParseMute(out) ==
    IF out.exc # NoExc THEN out
    ELSE [out EXCEPT !.value = Contains(Lower(out.value), <<"y", "e", "s">>)]

\* get_mute()
get_mute(vol, mute, fault) == ParseMute(run(GetSinkMuteCmd, vol, mute, fault))

Max(a, b) == IF a >= b THEN a ELSE b

Min(a, b) == IF a <= b THEN a ELSE b

\* return pct, after run(...)
Returning(value, out) == IF out.exc # NoExc THEN out ELSE [out EXCEPT !.value = value]

\* set_volume(pct), once pct is clamped
SetClamped(pct, vol, mute, fault) ==
    Returning(pct, run(SetSinkVolumeCmd(NatToStr(pct) \o <<"%">>), vol, mute, fault))

\* a set_volume that clamps from below only
set_volume_floor(pct, vol, mute, fault) == SetClamped(Max(0, pct), vol, mute, fault)

\* set_volume(pct)
set_volume(pct, vol, mute, fault) == SetClamped(Max(0, Min(100, pct)), vol, mute, fault)

\* a set_mute that mutes by turning the volume down
set_mute_by_volume(muted, vol, mute, fault) ==
    Returning(muted,
              run(SetSinkVolumeCmd(IF muted THEN <<"0", "%">> ELSE <<"1", "0", "0", "%">>),
                  vol, mute, fault))

\* set_mute(muted)
set_mute(muted, vol, mute, fault) ==
    Returning(muted, run(SetSinkMuteCmd(IF muted THEN <<"1">> ELSE <<"0">>), vol, mute, fault))

(***************************************************************************)
(* The response encoder: Handler.send_json and Handler.send_err.           *)
(* A JSON object is a sequence of <<key, value>> pairs, the value being    *)
(* its JSON text.  What reaches the client is a sequence of chunks, one    *)
(* per write to the socket that succeeded.                                 *)
(***************************************************************************)
\* json.dumps of an int >= 0
JsonNumber(n) == NatToStr(n)

\* json.dumps of a bool
JsonBool(b) == IF b THEN <<"t", "r", "u", "e">> ELSE <<"f", "a", "l", "s", "e">>

\* json.dumps of a str: quoted, with the quote, the backslash and the line
\* break escaped
JsonEscape(c) ==
    IF c = "\n" THEN "\\n"
    ELSE IF c = "\"" THEN "\\\""
    ELSE IF c = "\\" THEN "\\\\"
    ELSE c

JsonString(text) == <<"\"">> \o [i \in 1..Len(text) |-> JsonEscape(text[i])] \o <<"\"">>

\* json.dumps(obj, separators=(",", ":"))
RECURSIVE JsonMembers(_)
JsonMembers(obj) ==
    IF Len(obj) = 0 THEN <<>>
    ELSE JsonString(<<obj[1][1]>>) \o <<":">> \o obj[1][2]
         \o (IF Len(obj) = 1 THEN <<>> ELSE <<",">> \o JsonMembers(Tail(obj)))

JsonDumps(obj) == <<"{">> \o JsonMembers(obj) \o <<"}">>

\* Whether the k-th write to the socket succeeds, under a plan that lists the
\* outcomes of the first writes (every later write succeeds).
WriteOk(writes, k) == k > Len(writes) \/ writes[k]

\* send_json(code, obj), its writes being the k-th and (k+1)-th of the
\* request: the status line and the headers are buffered and written by
\* end_headers, the body by wfile.write; a write that fails raises OSError.
send_json(code, obj, writes, k) ==
    LET body == JsonDumps(obj)
        head == [part |-> "head", code |-> code, text |-> <<"Content-Type: application/json">>]
        rest == [part |-> "body", code |-> code, text |-> body]
    IN  IF ~WriteOk(writes, k)
        THEN [exc |-> <<"[Errno 32] Broken pipe">>, wire |-> <<>>, used |-> 1]
        ELSE IF ~WriteOk(writes, k + 1)
        THEN [exc |-> <<"[Errno 32] Broken pipe">>, wire |-> <<head>>, used |-> 2]
        ELSE [exc |-> NoExc, wire |-> <<head, rest>>, used |-> 2]

\* the object send_err(msg) sends
ErrorObj(msg) == << <<"error", JsonString(msg)>> >>

(***************************************************************************)
(* The route dispatcher: Handler.handle_request.                           *)
(***************************************************************************)
ApiVolume == <<"/", "a", "p", "i", "/", "v", "o", "l", "u", "m", "e">>

ApiMute == <<"/", "a", "p", "i", "/", "m", "u", "t", "e">>

\* a chain that strips one trailing slash only
RouteOneSlash(path) ==
    LET p == IF path # <<>> /\ path[Len(path)] = "/"
             THEN SubSeq(path, 1, Len(path) - 1)
             ELSE path
    IN  IF p = ApiVolume THEN "read_volume"
        ELSE IF p = ApiMute THEN "read_mute"
        ELSE IF StartsWith(p, ApiVolume \o <<"/">>) THEN "set_volume"
        ELSE IF StartsWith(p, ApiMute \o <<"/">>) THEN "set_mute"
        ELSE "not_found"

\* the branch of the if/elif chain that the stripped path selects
Route(path) ==
    LET p == RStripSlash(path)
    IN  IF p = ApiVolume THEN "read_volume"
        ELSE IF p = ApiMute THEN "read_mute"
        ELSE IF StartsWith(p, ApiVolume \o <<"/">>) THEN "set_volume"
        ELSE IF StartsWith(p, ApiMute \o <<"/">>) THEN "set_mute"
        ELSE "not_found"

\* val in ("1", "true", "yes")
MuteTokens == {<<"1">>, <<"t", "r", "u", "e">>, <<"y", "e", "s">>}

\* What the try block has come to before it calls send_json: the exception
\* raised (NoExc when none), the status and the object to send, the
\* invocations of the utility made and the sink's state afterwards.
Outcome(exc, code, obj, cs, vol, mute) ==
    [exc |-> exc, code |-> code, obj |-> obj, calls |-> cs, volume |-> vol, mute |-> mute]

\* {"volume": get_volume(), "mute": get_mute()}, both evaluated
VolumeAndMute(v, m) ==
    IF m.exc # NoExc
    THEN Outcome(m.exc, 500, <<>>, v.calls \o m.calls, m.volume, m.mute)
    ELSE Outcome(NoExc, 200, << <<"volume", JsonNumber(v.value)>>,
                                <<"mute", JsonBool(m.value)>> >>,
                 v.calls \o m.calls, m.volume, m.mute)

\* path == "/api/volume": get_volume() is evaluated first, get_mute() after it
ReadVolume(v, faults) ==
    IF v.exc # NoExc
    THEN Outcome(v.exc, 500, <<>>, v.calls, v.volume, v.mute)
    ELSE VolumeAndMute(v, get_mute(v.volume, v.mute, faults[2]))

\* path == "/api/mute", and the end of path.startswith("/api/mute/")
MuteReply(m) ==
    IF m.exc # NoExc
    THEN Outcome(m.exc, 500, <<>>, m.calls, m.volume, m.mute)
    ELSE Outcome(NoExc, 200, << <<"mute", JsonBool(m.value)>> >>,
                 m.calls, m.volume, m.mute)

\* the end of path.startswith("/api/volume/"): v = set_volume(pct)
VolumeReply(v) ==
    IF v.exc # NoExc
    THEN Outcome(v.exc, 500, <<>>, v.calls, v.volume, v.mute)
    ELSE Outcome(NoExc, 200, << <<"volume", JsonNumber(v.value)>> >>,
                 v.calls, v.volume, v.mute)

\* a set-volume branch that takes a parameter that is no integer for 0
SetVolumeOrZero(seg, vol, mute, faults) ==
    IF ~IntLiteral(seg)
    THEN VolumeReply(set_volume(0, vol, mute, faults[1]))
    ELSE VolumeReply(set_volume(IntValue(seg), vol, mute, faults[1]))

\* path.startswith("/api/volume/"): pct = int(path.split("/")[-1])
SetVolume(seg, vol, mute, faults) ==
    IF ~IntLiteral(seg)
    THEN Outcome(<<"invalid literal for int() with base 10: ", "'">> \o seg \o <<"'">>,
                 500, <<>>, <<>>, vol, mute)
    ELSE VolumeReply(set_volume(IntValue(seg), vol, mute, faults[1]))

\* a set-mute branch that compares the parameter whatever its case
SetMuteAnyCase(val, vol, mute, faults) ==
    MuteReply(set_mute(Lower(val) \in MuteTokens, vol, mute, faults[1]))

\* path.startswith("/api/mute/"): muted = val in ("1", "true", "yes")
SetMute(val, vol, mute, faults) ==
    MuteReply(set_mute(val \in MuteTokens, vol, mute, faults[1]))

\* the if/elif chain; seg is path.split("/")[-1]
Dispatch(route, seg, vol, mute, faults) ==
    IF route = "read_volume" THEN ReadVolume(get_volume(vol, mute, faults[1]), faults)
    ELSE IF route = "read_mute" THEN MuteReply(get_mute(vol, mute, faults[1]))
    ELSE IF route = "set_volume" THEN SetVolume(seg, vol, mute, faults)
    ELSE IF route = "set_mute" THEN SetMute(seg, vol, mute, faults)
    ELSE Outcome(NoExc, 404, << <<"error", JsonString(<<"not found">>)>> >>,
                 <<>>, vol, mute)

\* The try block up to its call of send_json.  faults[i] is what the i-th
\* invocation of the utility does.
TryBlock(path, vol, mute, faults) ==
    Dispatch(Route(path), LastSegment(RStripSlash(path)), vol, mute, faults)

\* What a request has done when handle_request returns or is left by an
\* exception (escaped): sent lists the calls of send_json, wire the chunks
\* written, nwrites the number of writes tried.
Handled(t, sent, wire, escaped, nwrites) ==
    [calls |-> t.calls, volume |-> t.volume, mute |-> t.mute,
     sent |-> sent, wire |-> wire, escaped |-> escaped, nwrites |-> nwrites]

\* send_err(str(e)) has returned err, or raised
ErrorSent(t, sent, wire, k, err) ==
    Handled(t, sent, wire \o err.wire, err.exc # NoExc, k - 1 + err.used)

\* except Exception as e: send_err(str(e)), its writes from the k-th on
Except(t, cause, sent, wire, k, writes) ==
    ErrorSent(t, sent \o << [code |-> 500, obj |-> ErrorObj(cause)] >>, wire, k,
              send_json(500, ErrorObj(cause), writes, k))

\* the send_json of the try block has returned first, or raised
ReplySent(t, first, writes) ==
    IF first.exc = NoExc
    THEN Handled(t, << [code |-> t.code, obj |-> t.obj] >>, first.wire, FALSE, first.used)
    ELSE Except(t, first.exc, << [code |-> t.code, obj |-> t.obj] >>, first.wire,
                first.used + 1, writes)

\* the try block's send_json, or the except clause for what the block raised
Respond(t, writes) ==
    IF t.exc # NoExc
    THEN Except(t, t.exc, <<>>, <<>>, 1, writes)
    ELSE ReplySent(t, send_json(t.code, t.obj, writes, 1), writes)

\* handle_request()
handle_request(path, vol, mute, faults, writes) ==
    Respond(TryBlock(path, vol, mute, faults), writes)

(***************************************************************************)
(* The server: HTTPServer handles one request at a time, each by do_GET or *)
(* do_POST; between two requests another actor may change the sink.        *)
(***************************************************************************)
VARIABLES
    sinkVolume,  \* the sink's volume, in percent
    sinkMute,    \* whether the sink is muted
    actor,       \* who took the last step: "none", "server" or "external"
    method,      \* the last request's method ("-" before the first request)
    path,        \* the last request's path
    calls,       \* the invocations of pactl the last request made, in order
    sent,        \* the calls of send_json the last request made, in order
    wire,        \* what the last request wrote to the client's socket
    escaped,     \* whether an exception left the last request's handler
    repeatOf     \* history, kept under SpecRepeat only: the method of the
                 \* request before the last one when the two asked for the
                 \* same path and met the same faults, with no step of another
                 \* actor between them; "-" otherwise

vars == <<sinkVolume, sinkMute, actor, method, path, calls, sent, wire, escaped, repeatOf>>

\* the volumes another actor gives the sink
SinkVolumes == {0, 50, 100, MaxSinkVolume}

\* the paths clients ask for, before the trailing slashes they append
BasePaths == {
    <<"/", "a", "p", "i", "/", "v", "o", "l", "u", "m", "e">>,
    <<"/", "a", "p", "i", "/", "m", "u", "t", "e">>,
    <<"/", "a", "p", "i", "/", "v", "o", "l", "u", "m", "e", "/", "5", "0">>,
    <<"/", "a", "p", "i", "/", "v", "o", "l", "u", "m", "e", "/", "7">>,
    <<"/", "a", "p", "i", "/", "v", "o", "l", "u", "m", "e", "/", "1", "0", "0">>,
    <<"/", "a", "p", "i", "/", "v", "o", "l", "u", "m", "e", "/", "1", "5", "0">>,
    <<"/", "a", "p", "i", "/", "v", "o", "l", "u", "m", "e", "/", "-", "5">>,
    <<"/", "a", "p", "i", "/", "v", "o", "l", "u", "m", "e", "/", "a", "b", "c">>,
    <<"/", "a", "p", "i", "/", "v", "o", "l", "u", "m", "e", "/", "e", "x", "t", "r", "a", "/", "5", "0">>,
    <<"/", "a", "p", "i", "/", "m", "u", "t", "e", "/", "1">>,
    <<"/", "a", "p", "i", "/", "m", "u", "t", "e", "/", "t", "r", "u", "e">>,
    <<"/", "a", "p", "i", "/", "m", "u", "t", "e", "/", "y", "e", "s">>,
    <<"/", "a", "p", "i", "/", "m", "u", "t", "e", "/", "0">>,
    <<"/", "a", "p", "i", "/", "m", "u", "t", "e", "/", "Y", "E", "S">>,
    <<"/", "a", "p", "i", "/", "m", "u", "t", "e", "/", "m", "a", "y", "b", "e">>,
    <<"/", "u", "n", "k", "n", "o", "w", "n", "/", "p", "a", "t", "h">>,
    <<"/", "a", "p", "i", "/", "v", "o", "l", "u", "m", "e", "s">>,
    <<"/">> }

RECURSIVE Slashes(_)
Slashes(n) == IF n = 0 THEN <<>> ELSE <<"/">> \o Slashes(n - 1)

\* the paths to which clients append trailing slashes
SlashedPaths == {
    <<"/", "a", "p", "i", "/", "v", "o", "l", "u", "m", "e">>,
    <<"/", "a", "p", "i", "/", "m", "u", "t", "e">>,
    <<"/", "a", "p", "i", "/", "v", "o", "l", "u", "m", "e", "/", "5", "0">> }

Paths ==
    BasePaths \cup {b \o Slashes(n) : b \in SlashedPaths, n \in 1..MaxTrailingSlashes}

\* The plans of faults for the invocations of pactl a request for path may
\* make: two when it reads the volume and the mute state, none when no route
\* matches, one otherwise.  An invocation that is not made has no fault, and
\* a set command prints nothing when it works.
PlansFor(route) ==
    {f \in Faults \X Faults :
        /\ route # "read_volume" => f[2] = "ok"
        /\ route = "not_found" => f[1] = "ok"
        /\ f[1] \in {"nonzero", "timeout"} => f[2] = "ok"
        /\ route \in {"set_volume", "set_mute"} => f[1] # "blank"}

FaultPlans(p) == PlansFor(Route(p))

\* the outcomes of a request's first writes to the socket, TRUE for a write
\* that succeeds; the writes after those listed succeed
WritePlans == {<<>>, <<FALSE>>, <<TRUE, FALSE>>, <<FALSE, FALSE>>,
               <<FALSE, TRUE, FALSE>>, <<TRUE, FALSE, FALSE>>,
               <<TRUE, FALSE, TRUE, FALSE>>}

\* the plan of faults a request met, from the invocations it made
PlanOf(cs) == [i \in 1..2 |-> IF i <= Len(cs) THEN cs[i].fault ELSE "ok"]

Init ==
    /\ sinkVolume \in SinkVolumes
    /\ sinkMute \in BOOLEAN
    /\ actor = "none"
    /\ method = "-"
    /\ path = <<>>
    /\ calls = <<>>
    /\ sent = <<>>
    /\ wire = <<>>
    /\ escaped = FALSE
    /\ repeatOf = "-"

\* do_GET
do_GET(p, vol, mute, faults, writes) == handle_request(p, vol, mute, faults, writes)

\* a do_POST that serves the set routes only
do_POST_sets_only(p, vol, mute, faults, writes) ==
    handle_request(IF Route(p) \in {"read_volume", "read_mute"} THEN <<"/">> ELSE p,
                   vol, mute, faults, writes)

\* do_POST
do_POST(p, vol, mute, faults, writes) == handle_request(p, vol, mute, faults, writes)

Methods == {"GET", "POST"}

\* BaseHTTPRequestHandler calls do_<method>
HandleOneRequest(m, p, vol, mute, faults, writes) ==
    IF m = "GET" THEN do_GET(p, vol, mute, faults, writes)
    ELSE do_POST(p, vol, mute, faults, writes)

\* One request.  The plans are the environment's: only the part of a plan
\* that the request consumes is chosen.
Serve(m, p, faults, writes) ==
    \E r \in {HandleOneRequest(m, p, sinkVolume, sinkMute, faults, writes)} :
        /\ \A i \in 1..2 : i > Len(r.calls) => faults[i] = "ok"
        /\ Len(writes) <= r.nwrites
        /\ sinkVolume' = r.volume
        /\ sinkMute' = r.mute
        /\ actor' = "server"
        /\ method' = m
        /\ path' = p
        /\ calls' = r.calls
        /\ sent' = r.sent
        /\ wire' = r.wire
        /\ escaped' = r.escaped

\* Another actor (a desktop mixer) sets the sink.  What is recorded of the
\* last request is dropped: it describes a request only until the sink is
\* changed under the server.
ExternalActor ==
    /\ \E v \in SinkVolumes, m \in BOOLEAN :
          /\ <<v, m>> # <<sinkVolume, sinkMute>>
          /\ sinkVolume' = v
          /\ sinkMute' = m
    /\ actor' = "external"
    /\ method' = "-"
    /\ path' = <<>>
    /\ calls' = <<>>
    /\ sent' = <<>>
    /\ wire' = <<>>
    /\ escaped' = FALSE
    /\ repeatOf' = "-"

\* one path or two of each kind, for the specifications that keep more of a
\* request than Spec does
FewPaths == {
    <<"/", "a", "p", "i", "/", "v", "o", "l", "u", "m", "e">>,
    <<"/", "a", "p", "i", "/", "m", "u", "t", "e", "/">>,
    <<"/", "a", "p", "i", "/", "v", "o", "l", "u", "m", "e", "/", "1", "5", "0">>,
    <<"/", "a", "p", "i", "/", "v", "o", "l", "u", "m", "e", "/", "a", "b", "c">>,
    <<"/", "a", "p", "i", "/", "m", "u", "t", "e", "/", "y", "e", "s">>,
    <<"/", "u", "n", "k", "n", "o", "w", "n", "/", "p", "a", "t", "h">> }

\* clients whose sockets take every write
Next ==
    \/ \E m \in Methods, p \in Paths :
          \E f \in FaultPlans(p) : Serve(m, p, f, <<>>) /\ repeatOf' = "-"
    \/ ExternalActor

Spec == Init /\ [][Next]_vars

\* the same clients, with the history of repeated requests kept
NextRepeat ==
    \/ \E m \in Methods, p \in FewPaths :
          \E f \in FaultPlans(p) :
             /\ Serve(m, p, f, <<>>)
             /\ repeatOf' = IF /\ actor = "server"
                               /\ path = p
                               /\ PlanOf(calls) = PlanOf(calls')
                            THEN method
                            ELSE "-"
    \/ ExternalActor

SpecRepeat == Init /\ [][NextRepeat]_vars

\* clients whose sockets may fail any write
NextIO ==
    \/ \E m \in Methods, p \in FewPaths :
          \E f \in FaultPlans(p), w \in WritePlans :
             Serve(m, p, f, w) /\ repeatOf' = "-"
    \/ ExternalActor

SpecIO == Init /\ [][NextIO]_vars

(***************************************************************************)
(* Properties.                                                             *)
(***************************************************************************)
\* the last step was a request
Served == actor = "server"

\* the parameter of the last request's path
Param == LastSegment(RStripSlash(path))

\* every invocation of the utility the last request made worked
NoFault == \A i \in 1..Len(calls) : calls[i].fault = "ok"

\* the chunks of one complete response
Response(code, body) ==
    << [part |-> "head", code |-> code, text |-> <<"Content-Type: application/json">>],
       [part |-> "body", code |-> code, text |-> body] >>

Clamp(v) == IF v > 100 THEN 100 ELSE IF v < 0 THEN 0 ELSE v

\* C1: a set-volume request whose parameter is an integer v, in range or
\* not, issues exactly one set-sink-volume command, carrying
\* max(0, min(100, v)) percent, and when the command works answers 200 with
\* {"volume": that value}: 100 for /api/volume/150, 0 for /api/volume/-5.
C1_ClampedVolume ==
    (Served /\ Route(path) = "set_volume" /\ IntLiteral(Param)) =>
        /\ Len(calls) = 1
        /\ calls[1].argv = << <<"pactl">>, <<"set-sink-volume">>, <<"@DEFAULT_SINK@">>,
                              NatToStr(Clamp(IntValue(Param))) \o <<"%">> >>
        /\ NoFault =>
              /\ Len(sent) = 1
              /\ sent[1].code = 200
              /\ sent[1].obj = << <<"volume", NatToStr(Clamp(IntValue(Param)))>> >>
              /\ wire = Response(200, <<"{", "\"", "volume", "\"", ":">>
                                      \o NatToStr(Clamp(IntValue(Param))) \o <<"}">>)
              /\ sinkVolume = Clamp(IntValue(Param))
        /\ (NoFault /\ path = <<"/", "a", "p", "i", "/", "v", "o", "l", "u", "m", "e", "/", "1", "5", "0">>) =>
              /\ calls[1].argv[4] = <<"1", "0", "0", "%">>
              /\ wire[2].text = <<"{", "\"", "volume", "\"", ":", "1", "0", "0", "}">>
        /\ (NoFault /\ path = <<"/", "a", "p", "i", "/", "v", "o", "l", "u", "m", "e", "/", "-", "5">>) =>
              /\ calls[1].argv[4] = <<"0", "%">>
              /\ wire[2].text = <<"{", "\"", "volume", "\"", ":", "0", "}">>

C1_Witness ==
    /\ Served
    /\ path = <<"/", "a", "p", "i", "/", "v", "o", "l", "u", "m", "e", "/", "1", "5", "0">>
    /\ NoFault
    /\ sinkVolume = 100
    /\ wire = Response(200, <<"{", "\"", "volume", "\"", ":", "1", "0", "0", "}">>)

\* C2: after a set-volume request for an integer v in [0,100] has succeeded,
\* and before any other actor touches the sink, get_volume() returns v and
\* a request for /api/volume reports "volume": v.
C2_RoundTrip ==
    (/\ Served
     /\ Route(path) = "set_volume"
     /\ IntLiteral(Param)
     /\ IntValue(Param) \in 0..100
     /\ NoFault) =>
        /\ get_volume(sinkVolume, sinkMute, "ok").exc = NoExc
        /\ get_volume(sinkVolume, sinkMute, "ok").value = IntValue(Param)
        /\ handle_request(ApiVolume, sinkVolume, sinkMute, <<"ok", "ok">>, <<>>).sent[1].obj[1]
              = <<"volume", NatToStr(IntValue(Param))>>

C2_Witness ==
    /\ Served
    /\ path = <<"/", "a", "p", "i", "/", "v", "o", "l", "u", "m", "e", "/", "7">>
    /\ NoFault
    /\ sent[1].code = 200
    /\ get_volume(sinkVolume, sinkMute, "ok").value = 7

\* C3: a set-mute request that succeeds leaves the sink such that get_mute()
\* returns the state it commanded (true after set_mute(True), false after
\* set_mute(False)), from whatever state earlier requests left, and no
\* set-mute request changes what get_volume() returns.
C3_MuteIndependent ==
    [][(actor' = "server" /\ Route(path') = "set_mute") =>
          /\ get_volume(sinkVolume', sinkMute', "ok").value
                = get_volume(sinkVolume, sinkMute, "ok").value
          /\ sinkVolume' = sinkVolume
          /\ (\A i \in 1..Len(calls') : calls'[i].fault = "ok") =>
                /\ Len(calls') = 1
                /\ calls'[1].argv[4] \in {<<"1">>, <<"0">>}
                /\ get_mute(sinkVolume', sinkMute', "ok").value
                      = (calls'[1].argv[4] = <<"1">>)
                /\ handle_request(ApiMute, sinkVolume', sinkMute', <<"ok", "ok">>, <<>>).sent[1].obj
                      = << <<"mute", IF calls'[1].argv[4] = <<"1">>
                                     THEN <<"t", "r", "u", "e">>
                                     ELSE <<"f", "a", "l", "s", "e">> >> >>]_vars

C3_Witness ==
    /\ Served
    /\ path = <<"/", "a", "p", "i", "/", "m", "u", "t", "e", "/", "y", "e", "s">>
    /\ NoFault
    /\ sinkVolume = 50
    /\ get_mute(sinkVolume, sinkMute, "ok").value = TRUE

\* C4: every "volume" member of a 200 response is between 0 and 100, whether
\* it comes from clamping a client's value or from the mixer's status text,
\* whatever percentage the mixer reports.
C4_VolumeInRange ==
    \A i \in 1..Len(sent) :
        sent[i].code = 200 =>
            \A j \in 1..Len(sent[i].obj) :
                sent[i].obj[j][1] = "volume" =>
                    DigitsValue(sent[i].obj[j][2]) \in 0..100

\* the verbs of the commands the last request issued
Verbs == [i \in 1..Len(calls) |-> calls[i].argv[2]]

\* the path up to its last character that is no slash
Trimmed(p) ==
    LET keep == {i \in 1..Len(p) : p[i] # "/"}
    IN  IF keep = {} THEN <<>>
        ELSE SubSeq(p, 1, CHOOSE i \in keep : \A j \in keep : j <= i)

HasPrefix(p, pre) == \E k \in 0..Len(p) : SubSeq(p, 1, k) = pre

\* C5: the operation of a request is chosen from its path with every
\* trailing slash removed: /api/volume reads the volume and the mute state,
\* /api/mute reads the mute state, a path under /api/volume/ sets the volume
\* to its last segment, a path under /api/mute/ sets the mute state from its
\* last segment, and any other path is answered 404 {"error":"not found"}
\* without any command.  /api/volume/extra/50 sets 50 percent; /api/volume/
\* and /api/mute/ are reads.
C5_Routing ==
    (Served /\ NoFault) =>
        /\ Trimmed(path) = <<"/", "a", "p", "i", "/", "v", "o", "l", "u", "m", "e">> =>
              /\ Verbs = << <<"get-sink-volume">>, <<"get-sink-mute">> >>
              /\ sent[1].code = 200
              /\ Len(sent[1].obj) = 2
        /\ Trimmed(path) = <<"/", "a", "p", "i", "/", "m", "u", "t", "e">> =>
              /\ Verbs = << <<"get-sink-mute">> >>
              /\ sent[1].code = 200
              /\ Len(sent[1].obj) = 1
        /\ HasPrefix(Trimmed(path), <<"/", "a", "p", "i", "/", "v", "o", "l", "u", "m", "e", "/">>) =>
              /\ Verbs \in { <<>>, << <<"set-sink-volume">> >> }
              /\ Verbs = <<>> => sent[1].code = 500 /\ ~IntLiteral(LastSegment(Trimmed(path)))
              /\ Verbs # <<>> =>
                    /\ sent[1].code = 200
                    /\ calls[1].argv[4]
                          = NatToStr(Clamp(IntValue(LastSegment(Trimmed(path))))) \o <<"%">>
        /\ HasPrefix(Trimmed(path), <<"/", "a", "p", "i", "/", "m", "u", "t", "e", "/">>) =>
              /\ Verbs = << <<"set-sink-mute">> >>
              /\ sent[1].code = 200
        /\ (/\ Trimmed(path) \notin {<<"/", "a", "p", "i", "/", "v", "o", "l", "u", "m", "e">>, <<"/", "a", "p", "i", "/", "m", "u", "t", "e">>}
            /\ ~HasPrefix(Trimmed(path), <<"/", "a", "p", "i", "/", "v", "o", "l", "u", "m", "e", "/">>)
            /\ ~HasPrefix(Trimmed(path), <<"/", "a", "p", "i", "/", "m", "u", "t", "e", "/">>)) =>
              /\ calls = <<>>
              /\ wire = Response(404, <<"{", "\"", "error", "\"", ":", "\"", "not found", "\"", "}">>)
        /\ path = <<"/", "a", "p", "i", "/", "v", "o", "l", "u", "m", "e", "/", "e", "x", "t", "r", "a", "/", "5", "0">> =>
              calls[1].argv = << <<"pactl">>, <<"set-sink-volume">>, <<"@DEFAULT_SINK@">>,
                                 <<"5", "0", "%">> >>
        /\ path \in {<<"/", "a", "p", "i", "/", "v", "o", "l", "u", "m", "e", "/">>, <<"/", "a", "p", "i", "/", "v", "o", "l", "u", "m", "e", "/", "/">>} =>
              Verbs = << <<"get-sink-volume">>, <<"get-sink-mute">> >>
        /\ path \in {<<"/", "a", "p", "i", "/", "m", "u", "t", "e", "/">>, <<"/", "a", "p", "i", "/", "m", "u", "t", "e", "/", "/">>} =>
              Verbs = << <<"get-sink-mute">> >>

C5_Witness ==
    /\ Served
    /\ path = <<"/", "a", "p", "i", "/", "v", "o", "l", "u", "m", "e", "/", "/">>
    /\ NoFault
    /\ Verbs = << <<"get-sink-volume">>, <<"get-sink-mute">> >>
    /\ sent[1].code = 200

\* C6: a set-mute request commands the mixer to mute exactly when its
\* parameter is "1", "true" or "yes", compared case-sensitively, and to unmute
\* for any other parameter; when the command works the response is 200
\* {"mute": b}, b being the state commanded.
C6_MuteTokens ==
    (Served /\ Route(path) = "set_mute") =>
        /\ Len(calls) = 1
        /\ calls[1].argv = << <<"pactl">>, <<"set-sink-mute">>, <<"@DEFAULT_SINK@">>,
                              IF Param \in {<<"1">>, <<"t", "r", "u", "e">>, <<"y", "e", "s">>}
                              THEN <<"1">> ELSE <<"0">> >>
        /\ NoFault =>
              /\ sinkMute = (Param \in {<<"1">>, <<"t", "r", "u", "e">>, <<"y", "e", "s">>})
              /\ wire = Response(200,
                           IF Param \in {<<"1">>, <<"t", "r", "u", "e">>, <<"y", "e", "s">>}
                           THEN <<"{", "\"", "mute", "\"", ":", "t", "r", "u", "e", "}">>
                           ELSE <<"{", "\"", "mute", "\"", ":", "f", "a", "l", "s", "e", "}">>)

C6_Witness ==
    /\ Served
    /\ path = <<"/", "a", "p", "i", "/", "m", "u", "t", "e", "/", "Y", "E", "S">>
    /\ NoFault
    /\ calls[1].argv[4] = <<"0">>
    /\ sinkMute = FALSE
    /\ wire[2].text = <<"{", "\"", "mute", "\"", ":", "f", "a", "l", "s", "e", "}">>

\* the last request met a failure of the adapter or of parameter parsing:
\* a command that exited non-zero or timed out, a volume text without a
\* "/ N%" token, a volume parameter that is no integer
AdapterFailed ==
    \/ \E i \in 1..Len(calls) : calls[i].fault \in {"nonzero", "timeout"}
    \/ \E i \in 1..Len(calls) :
          calls[i].argv[2] = <<"get-sink-volume">> /\ calls[i].fault = "blank"
    \/ Route(path) = "set_volume" /\ ~IntLiteral(Param)

\* the message in the object of a response {"error": message}
ErrorText(obj) == SubSeq(obj[1][2], 2, Len(obj[1][2]) - 1)

\* C7: on a matched route, a request that meets a failure of the adapter or
\* of parameter parsing answers 500 {"error": message} and nothing else; the
\* command that failed is the last one of the request, and it was issued
\* once.
C7_FailureIs500 ==
    (Served /\ Route(path) # "not_found" /\ AdapterFailed) =>
        /\ Len(sent) = 1
        /\ sent[1].code = 500
        /\ Len(sent[1].obj) = 1
        /\ sent[1].obj[1][1] = "error"
        /\ ErrorText(sent[1].obj) # <<>>
        /\ wire = Response(500, JsonDumps(sent[1].obj))
        /\ ~escaped
        /\ \A i \in 1..Len(calls) : calls[i].fault \in {"nonzero", "timeout"} => i = Len(calls)
        /\ \A i, j \in 1..Len(calls) : calls[i].argv = calls[j].argv => i = j
        /\ (calls # <<>> /\ calls[Len(calls)].fault = "nonzero") =>
              ErrorText(sent[1].obj)[1] = "Command failed: "
        /\ (calls # <<>> /\ calls[Len(calls)].fault = "timeout") =>
              SubSeq(ErrorText(sent[1].obj), Len(ErrorText(sent[1].obj)) - 2,
                     Len(ErrorText(sent[1].obj))) = <<" timed out after ", "5", " seconds">>
        /\ (calls # <<>> /\ calls[Len(calls)].fault = "blank") =>
              ErrorText(sent[1].obj)[1] = "Could not parse volume: "
        /\ calls = <<>> =>
              ErrorText(sent[1].obj)[1] = "invalid literal for int() with base 10: "

C7_Witness ==
    /\ Served
    /\ path = <<"/", "a", "p", "i", "/", "v", "o", "l", "u", "m", "e">>
    /\ Len(calls) = 2
    /\ calls[1].fault = "ok"
    /\ calls[2].fault = "timeout"
    /\ sent[1].code = 500
    /\ Len(wire) = 2

\* C8: every request puts exactly one complete response on the wire, a head
\* and the body of the same status, and no exception leaves the handler:
\* there is no partial response and there are no two responses, also when a
\* write of the response fails.
C8_OneResponse ==
    Served =>
        /\ Len(wire) = 2
        /\ wire[1].part = "head"
        /\ wire[2].part = "body"
        /\ wire[1].code = wire[2].code
        /\ Len(sent) = 1
        /\ ~escaped

\* C9: two requests for the same path that meet the same faults, with no
\* step of another actor between them, make the same invocations of the
\* utility and get the same response, whatever their methods.
C9_Stateless ==
    [][(/\ actor = "server"
        /\ actor' = "server"
        /\ path' = path
        /\ PlanOf(calls') = PlanOf(calls)) =>
          /\ calls' = calls
          /\ sent' = sent
          /\ wire' = wire]_vars

C9_Witness ==
    /\ Served
    /\ repeatOf = "GET"
    /\ method = "POST"
    /\ path = <<"/", "a", "p", "i", "/", "v", "o", "l", "u", "m", "e">>
    /\ NoFault
    /\ sent[1].code = 200

\* C10: a read request, a request for an unmatched path and a set-volume
\* request whose parameter is no integer leave the sink's volume and mute
\* state as they were, the last of them without invoking the utility before
\* its 500 response; a set-volume request leaves the mute state, and a
\* set-mute request the volume.
C10_Frame ==
    [][actor' = "server" =>
          \A route \in {Route(path')} :
             /\ route \in {"read_volume", "read_mute", "not_found"} =>
                   sinkVolume' = sinkVolume /\ sinkMute' = sinkMute
             /\ (route = "set_volume" /\ ~IntLiteral(LastSegment(RStripSlash(path')))) =>
                   /\ sinkVolume' = sinkVolume
                   /\ sinkMute' = sinkMute
                   /\ calls' = <<>>
                   /\ sent'[1].code = 500
             /\ route = "set_volume" => sinkMute' = sinkMute
             /\ route = "set_mute" => sinkVolume' = sinkVolume
             /\ route = "not_found" => calls' = <<>>]_vars

C10_Witness ==
    /\ Served
    /\ path = <<"/", "a", "p", "i", "/", "v", "o", "l", "u", "m", "e", "/", "a", "b", "c">>
    /\ calls = <<>>
    /\ sent[1].code = 500
    /\ sinkVolume = 50
    /\ sinkMute

=============================================================================
